---------------------------- MODULE Spec2Model ----------------------------
(***************************************************************************)
(* Job Deadline Crawler (Powerpraveen/job-crawler-app).                    *)
(*                                                                         *)
(* The repository holds three variants of one React application.  Two of   *)
(* them are complete programs and are modelled here as state machines:     *)
(*   "part_000"  src/unnamed/part_000  useReducer + crawlerReducer         *)
(*   "part_001"  src/unnamed/part_001  plain useState hooks                *)
(* (src/src/App.jsx is cut off inside handleFetchJobs; its extraction loop *)
(* is that of part_000.)                                                   *)
(*                                                                         *)
(* Text is modelled as sequences of one-character strings, dates as the    *)
(* number of hours since 1970-01-01T00:00Z (the value of getTime(), in     *)
(* hours), so that a Date built from UTC components and a Date built in    *)
(* local time are different values.                                        *)
(***************************************************************************)
EXTENDS Integers, Sequences, FiniteSets, TLC

\* A value of type Date|null: <<>> is null (or an Invalid Date, which
\* parseDate turns into null), <<t>> is the Date whose getTime() is t hours
NULL == <<>>

DateOf(t) == <<t>>

TimeOf(date) == date[1]

\* F applied to the value of v, with v evaluated once
Bind(v, F(_)) == CHOOSE out \in {F(x) : x \in {v}} : TRUE

(***************************************************************************)
(* Characters                                                              *)
(***************************************************************************)
Digits == <<"0", "1", "2", "3", "4", "5", "6", "7", "8", "9">>

IsDigit(c) == \E k \in 1..10 : Digits[k] = c

DigitVal(c) == (CHOOSE k \in 1..10 : Digits[k] = c) - 1

LowerLetters == {"a", "b", "c", "d", "e", "f", "g", "h", "i", "j", "k", "l", "m",
                 "n", "o", "p", "q", "r", "s", "t", "u", "v", "w", "x", "y", "z"}

\* the capitals that occur in the month names of the inputs
UpperToLower == [c \in {"J", "F", "M", "A", "S", "O", "N", "D"} |->
                   CASE c = "J" -> "j" [] c = "F" -> "f" [] c = "M" -> "m"
                     [] c = "A" -> "a" [] c = "S" -> "s" [] c = "O" -> "o"
                     [] c = "N" -> "n" [] c = "D" -> "d"]

\* String.prototype.toLowerCase on one character
ToLower(c) == IF c \in DOMAIN UpperToLower THEN UpperToLower[c] ELSE c

\* [a-z] under the i flag
IsLetter(c) == ToLower(c) \in LowerLetters

\* [./-]
IsSep(c) == c \in {".", "/", "-"}

\* parseInt(digits, 10) of a non-empty run of digits
RECURSIVE ParseInt(_)
ParseInt(ds) ==
    IF ds = <<>> THEN 0
    ELSE 10 * ParseInt(SubSeq(ds, 1, Len(ds) - 1)) + DigitVal(ds[Len(ds)])

\* s[i..i+n-1] exists and is all digits
DigitsAt(s, i, n) ==
    /\ i >= 1
    /\ i + n - 1 <= Len(s)
    /\ \A k \in 0..(n - 1) : IsDigit(s[i + k])

\* s[i..i+n-1] exists and is all letters
LettersAt(s, i, n) ==
    /\ i >= 1
    /\ i + n - 1 <= Len(s)
    /\ \A k \in 0..(n - 1) : IsLetter(s[i + k])

CharAt(s, i, c) == i >= 1 /\ i <= Len(s) /\ s[i] = c

SepAt(s, i) == i >= 1 /\ i <= Len(s) /\ IsSep(s[i])

(***************************************************************************)
(* Calendar: Date.UTC and local midnight                                   *)
(***************************************************************************)
IsLeap(y) == (y % 4 = 0 /\ y % 100 # 0) \/ y % 400 = 0

DaysInMonth(y, m) ==
    IF m = 2 THEN (IF IsLeap(y) THEN 29 ELSE 28)
    ELSE IF m \in {4, 6, 9, 11} THEN 30 ELSE 31

\* a real calendar date
ValidDate(y, m, d) == m \in 1..12 /\ d >= 1 /\ d <= DaysInMonth(y, m)

\* days from 1970-01-01 to the first day of month m (1..12) of year y
DaysFromCivil(y, m) ==
    LET yy  == IF m <= 2 THEN y - 1 ELSE y
        era == yy \div 400
        yoe == yy - era * 400
        mp  == (m + 9) % 12
        doy == (153 * mp + 2) \div 5
        doe == yoe * 365 + yoe \div 4 - yoe \div 100 + doy
    IN  era * 146097 + doe - 719468

\* Date.UTC(year, month, day).getTime() in hours: month is 0-based; a month
\* outside 0..11 carries into the year and a day outside the month carries
\* into the next (or previous) month (ECMAScript MakeDay), so the result is
\* never NaN for integer arguments; a year 0..99 means 1900 + year.
DateUTC(year, month, day) ==
    LET y0 == IF year >= 0 /\ year <= 99 THEN 1900 + year ELSE year
        ym == y0 + (month \div 12)
        mn == month % 12
    IN  24 * (DaysFromCivil(ym, mn + 1) + day - 1)

\* midnight of the calendar date in the zone tz hours ahead of UTC
LocalMidnight(year, month, day, tz) == DateUTC(year, month, day) - tz

(***************************************************************************)
(* parseDate                                                               *)
(***************************************************************************)
\* const months = { jan: 0, ..., dec: 11 }
MonthKeys == <<<<"j", "a", "n">>, <<"f", "e", "b">>, <<"m", "a", "r">>,
               <<"a", "p", "r">>, <<"m", "a", "y">>, <<"j", "u", "n">>,
               <<"j", "u", "l">>, <<"a", "u", "g">>, <<"s", "e", "p">>,
               <<"o", "c", "t">>, <<"n", "o", "v">>, <<"d", "e", "c">>>>

\* months[key]: the 0-based month, or -1 for undefined
MonthIndex(key) ==
    IF \E k \in 1..12 : MonthKeys[k] = key
    THEN (CHOOSE k \in 1..12 : MonthKeys[k] = key) - 1
    ELSE -1

LowerSeq(s) == [k \in 1..Len(s) |-> ToLower(s[k])]

\* dateString.replace(/, /g, ' ')
RECURSIVE ReplaceCommaSpace(_)
ReplaceCommaSpace(s) ==
    IF s = <<>> THEN <<>>
    ELSE IF Len(s) >= 2 /\ s[1] = "," /\ s[2] = " "
         THEN <<" ">> \o ReplaceCommaSpace(SubSeq(s, 3, Len(s)))
         ELSE <<s[1]>> \o ReplaceCommaSpace(Tail(s))

\* the first tuple of S in the order a backtracking matcher tries them:
\* leftmost start first, then each greedy quantifier as long as possible,
\* the earlier quantifier deciding before the later one
RECURSIVE Better(_, _)
Better(t, u) ==
    IF t = <<>> THEN FALSE
    ELSE IF Head(t) # Head(u) THEN Head(t) > Head(u)
    ELSE Better(Tail(t), Tail(u))

FirstMatch(S) ==
    Bind(S, LAMBDA M :
         Bind({t \in M : \A u \in M : t[1] <= u[1]}, LAMBDA S0 :
              CHOOSE t \in S0 : \A u \in S0 : u = t \/ Better(Tail(t), Tail(u))))

\* /(\d{1,2})[./-](\d{1,2})[./-](\d{2,4})/ : <<start, len1, len2, len3>>
Pattern1Matches(s) ==
    {t \in (1..Len(s)) \X (1..2) \X (1..2) \X (2..4) :
        /\ DigitsAt(s, t[1], t[2])
        /\ SepAt(s, t[1] + t[2])
        /\ DigitsAt(s, t[1] + t[2] + 1, t[3])
        /\ SepAt(s, t[1] + t[2] + 1 + t[3])
        /\ DigitsAt(s, t[1] + t[2] + t[3] + 2, t[4])}

\* /(?:(\d{1,2}) )?([a-z]{3,}) (\d{1,2})?(?:, )?(\d{4})/i :
\* <<start, len of the leading day (0: group absent), len of the letters,
\*   len of the trailing day (0: absent), 1 if ", " is taken else 0>>
\* (the tuples are built from the runs <<w, n>> of n letters at w that a
\* space follows, which every match holds)
Pattern2Matches(s) ==
    {t \in {<<r[1] - (IF a = 0 THEN 0 ELSE a + 1), a, r[2], b, c>> :
               r \in {u \in (1..Len(s)) \X (3..Len(s)) :
                         LettersAt(s, u[1], u[2]) /\ CharAt(s, u[1] + u[2], " ")},
               a \in 0..2, b \in 0..2, c \in 0..1} :
        LET w == t[1] + (IF t[2] = 0 THEN 0 ELSE t[2] + 1)   \* the letters
            e == w + t[3]                                    \* the space
            y == e + 1 + t[4] + 2 * t[5]                     \* the year
        IN  /\ t[1] >= 1
            /\ t[2] > 0 => DigitsAt(s, t[1], t[2]) /\ CharAt(s, t[1] + t[2], " ")
            /\ LettersAt(s, w, t[3])
            /\ CharAt(s, e, " ")
            /\ t[4] > 0 => DigitsAt(s, e + 1, t[4])
            /\ t[5] = 1 => CharAt(s, e + 1 + t[4], ",") /\ CharAt(s, e + 2 + t[4], " ")
            /\ DigitsAt(s, y, 4)}

\* /(\d{4})[./-](\d{1,2})[./-](\d{1,2})/ : <<start, len2, len3>>
Pattern3Matches(s) ==
    {t \in (1..Len(s)) \X (1..2) \X (1..2) :
        /\ DigitsAt(s, t[1], 4)
        /\ SepAt(s, t[1] + 4)
        /\ DigitsAt(s, t[1] + 5, t[2])
        /\ SepAt(s, t[1] + 5 + t[2])
        /\ DigitsAt(s, t[1] + 6 + t[2], t[3])}

\* A last resort without the isNaN test: what it returns for text without a
\* date is an Invalid Date object, neither null nor a date; totality must
\* fail of it
NewDateNoNaNTest(s, tz) == <<0, 0>>

\* new Date(dateString), the last resort of parseDate.  The strings that get
\* here carry no D/M/Y, Y-M-D or "D Month YYYY" match.  Of those, the inputs
\* of this model are the trailing-day textual form "Month D YYYY" or
\* "Month D, YYYY", which the browsers' date parser reads as midnight of
\* that day in LOCAL time, and text without any date, which gives an
\* Invalid Date (NaN, here NULL).
NewDate(s, tz) ==
    LET M == {t \in (3..Len(s)) \X (1..2) \X (0..1) :
                /\ LettersAt(s, 1, t[1])
                /\ CharAt(s, t[1] + 1, " ")
                /\ DigitsAt(s, t[1] + 2, t[2])
                /\ t[3] = 1 => CharAt(s, t[1] + 2 + t[2], ",")
                /\ CharAt(s, t[1] + 2 + t[2] + t[3], " ")
                /\ DigitsAt(s, t[1] + 3 + t[2] + t[3], 4)
                /\ Len(s) = t[1] + 6 + t[2] + t[3]}
    IN  IF M = {} THEN NULL
        ELSE LET t     == CHOOSE u \in M : TRUE
                 month == MonthIndex(LowerSeq(SubSeq(s, 1, 3)))
                 day   == ParseInt(SubSeq(s, t[1] + 2, t[1] + 1 + t[2]))
                 year  == ParseInt(SubSeq(s, Len(s) - 3, Len(s)))
             IN  IF month >= 0 /\ ValidDate(year, month + 1, day)
                 THEN DateOf(LocalMidnight(year, month, day, tz))
                 ELSE NULL

\* Pattern 1 without "if (year < 100) year += 2000": Date.UTC then reads a
\* 2-digit year as 1900 + YY, and the round trip of D/M/YY must fail
ParsePattern1NoCentury(s) ==
    Bind(FirstMatch(Pattern1Matches(s)), LAMBDA t :
         DateOf(DateUTC(ParseInt(SubSeq(s, t[1] + t[2] + t[3] + 2,
                                           t[1] + t[2] + t[3] + t[4] + 1)),
                        ParseInt(SubSeq(s, t[1] + t[2] + 1, t[1] + t[2] + t[3])) - 1,
                        ParseInt(SubSeq(s, t[1], t[1] + t[2] - 1)))))

\* Pattern 1 of parseDate: dd/mm/yyyy, dd-mm-yyyy, dd.mm.yyyy
ParsePattern1(s) ==
    Bind(FirstMatch(Pattern1Matches(s)), LAMBDA t :
         LET day   == ParseInt(SubSeq(s, t[1], t[1] + t[2] - 1))
             month == ParseInt(SubSeq(s, t[1] + t[2] + 1, t[1] + t[2] + t[3])) - 1
             y     == ParseInt(SubSeq(s, t[1] + t[2] + t[3] + 2,
                                         t[1] + t[2] + t[3] + t[4] + 1))
             year  == IF y < 100 THEN y + 2000 ELSE y
         IN  DateOf(DateUTC(year, month, day)))

\* Pattern 2 of parseDate: "dd Month yyyy" or "Month dd, yyyy"; NULL when the
\* month is not in the table or neither day group took part (parseInt gives
\* NaN and the Date is invalid)
ParsePattern2(r) ==
    Bind(FirstMatch(Pattern2Matches(r)), LAMBDA t :
         LET w     == t[1] + (IF t[2] = 0 THEN 0 ELSE t[2] + 1)
             e     == w + t[3]
             month == MonthIndex(LowerSeq(SubSeq(r, w, w + 2)))
             day   == IF t[2] > 0 THEN ParseInt(SubSeq(r, t[1], t[1] + t[2] - 1))
                      ELSE ParseInt(SubSeq(r, e + 1, e + t[4]))
             yAt   == e + 1 + t[4] + 2 * t[5]
             year  == ParseInt(SubSeq(r, yAt, yAt + 3))
         IN  IF month < 0 \/ (t[2] = 0 /\ t[4] = 0) THEN NULL
             ELSE DateOf(DateUTC(year, month, day)))

\* Pattern 3 of parseDate: yyyy-mm-dd
ParsePattern3(s) ==
    Bind(FirstMatch(Pattern3Matches(s)), LAMBDA t :
         LET year  == ParseInt(SubSeq(s, t[1], t[1] + 3))
             month == ParseInt(SubSeq(s, t[1] + 5, t[1] + 4 + t[2])) - 1
             day   == ParseInt(SubSeq(s, t[1] + 6 + t[2], t[1] + 5 + t[2] + t[3]))
         IN  DateOf(DateUTC(year, month, day)))

\* parseDate of part_000
parseDate(dateString, tz) ==
    IF dateString = <<>> THEN NULL
    ELSE IF Pattern1Matches(dateString) # {} THEN ParsePattern1(dateString)
    ELSE Bind(Bind(ReplaceCommaSpace(dateString), LAMBDA r :
                   IF Pattern2Matches(r) # {} THEN ParsePattern2(r) ELSE NULL),
              LAMBDA p2 :
              IF p2 # NULL THEN p2
              ELSE IF Pattern3Matches(dateString) # {} THEN ParsePattern3(dateString)
              ELSE NewDate(dateString, tz))

\* parseDate of part_001: pattern 1, then new Date(dateString)
parseDateV1(dateString, tz) ==
    IF dateString = <<>> THEN NULL
    ELSE IF Pattern1Matches(dateString) # {} THEN ParsePattern1(dateString)
    ELSE NewDate(dateString, tz)

(***************************************************************************)
(* The environment: the sites that can be crawled                          *)
(***************************************************************************)
\* The crawl day is 2025-01-15 (UTC); Now is the time of the crawl and
\* TzOffsets the local zones of the machine, in hours ahead of UTC.
CrawlDay == DateUTC(2025, 0, 15)

HoursOfDay == {3, 21}

TzOffsets == {-8, 0, 5}

\* what the user can type into the URL field
SiteUrl == "https://example.com"

Urls == {"", SiteUrl}

Link1 == "https://example.com/job/1"

Link2 == "https://example.com/careers/2"

\* An absolute URL, cut where its parts end: the scheme, the host as the
\* pieces it is written with (more than one when the host goes on after a
\* piece that is itself a host name) and the path
Url(scheme, host, path) == [scheme |-> scheme, host |-> host, path |-> path]

\* the URL as the string it is, piece by piece
Href(url) == <<url.scheme>> \o url.host \o <<url.path>>

\* new URL(..).origin: scheme and host
Origin(url) == <<url.scheme>> \o url.host

\* String.prototype.startsWith
StartsWith(string, prefix) ==
    Len(prefix) <= Len(string) /\ SubSeq(string, 1, Len(prefix)) = prefix

\* new URL(correctedUrl) for the url SiteUrl
SeedUrl == Url("https://", <<"example.com">>, "")

\* const jobUrlKeywords = [...]
JobUrlKeywords == {"job", "career", "vacancy", "hiring", "position"}

\* An anchor of the seed page under 'article a, .post a, .job-listing a,
\* h2 a, h3 a': its absolute href, the parts of that href, and the words
\* of interest that the lowercased href and the lowercased text include
Anchor(href, url, urlWords, textWords) ==
    [href |-> href, url |-> url, urlWords |-> urlWords, textWords |-> textWords]

AboutAnchor ==
    Anchor("https://example.com/about", Url("https://", <<"example.com">>, "/about"),
           {}, {})

JobAnchor == Anchor(Link1, Url("https://", <<"example.com">>, "/job/1"), {"job"}, {})

CareersAnchor ==
    Anchor(Link2, Url("https://", <<"example.com">>, "/careers/2"), {"career"},
           {"career"})

OtherSiteAnchor ==
    Anchor("https://other.org/job/9", Url("https://", <<"other.org">>, "/job/9"),
           {"job"}, {"job", "hiring"})

\* the seed pages a site can serve: the anchors in document order
SeedPages ==
    {<<AboutAnchor>>,
     <<JobAnchor, OtherSiteAnchor, CareersAnchor,
       [JobAnchor EXCEPT !.textWords = {"job"}]>>}

\* const jobKeywords = [...]
JobKeywords == {"qualification", "responsibilit", "experience", "salary",
                "location", "apply now", "job type"}

\* the trigger phrases of deadlineRegex in part_000 / App.jsx
TriggerPhrases == {"last date", "closing date", "deadline", "apply by",
                   "applications close", "submit by"}

\* the trigger phrases of deadlineRegex in part_001
TriggerPhrasesV1 == {"last date", "closing date", "deadline"}

\* A fetched post page: the text findTitle gives for it, the job keywords
\* its lowercased body text includes, the first trigger phrase of its body
\* text ("none": there is none) and the text after that phrase, up to the
\* first character that is not in [\w\s,./-].
Page(title, keywords, phrase, after) ==
    [title |-> title, keywords |-> keywords, phrase |-> phrase, after |-> after]

Docs ==
    <<Page("past", {"qualification", "salary"}, "last date",
           <<":", " ", "1", "4", "/", "0", "1", "/", "2", "0", "2", "5">>),
      Page("today", {"experience", "location"}, "deadline",
           <<":", " ", "1", "5", "/", "0", "1", "/", "2", "0", "2", "5">>),
      Page("future", {"experience", "salary", "job type"}, "closing date",
           <<" ", "2", "0", "-", "0", "1", "-", "2", "0", "2", "5">>),
      Page("onekeyword", {"salary"}, "last date",
           <<":", " ", "2", "1", "/", "0", "1", "/", "2", "0", "2", "5">>),
      Page("nokeyword", {}, "deadline",
           <<":", " ", "2", "2", ".", "0", "1", ".", "2", "5">>),
      Page("nophrase", JobKeywords, "none", <<>>),
      Page("textual", {"apply now", "location"}, "apply by",
           <<" ", "J", "a", "n", "u", "a", "r", "y", " ", "1", "4", ",", " ",
             "2", "0", "2", "5">>),
      Page("nodate", {"salary", "location"}, "deadline", <<":", " ", "t", "b", "d">>)>>

DocIds == 1..Len(Docs)

\* The promise fetchHtml(link).then(..).catch(..) of one candidate: pending,
\* or settled with html: null (0) after a rejection, or settled with the
\* html of a post page
Pending == [settled |-> FALSE, html |-> 0]

Rejected == [settled |-> TRUE, html |-> 0]

Fulfilled(d) == [settled |-> TRUE, html |-> d]

FetchOutcomes == {Rejected} \cup {Fulfilled(d) : d \in DocIds}

(***************************************************************************)
(* Step 3 of handleFetchJobs: extraction                                   *)
(***************************************************************************)
\* \s
IsSpace(c) == c \in {" ", "\n", "\t"}

\* [\w\s,./-]
IsPayloadChar(c) == IsLetter(c) \/ IsDigit(c) \/ c = "_" \/ IsSpace(c)
                    \/ c \in {",", ".", "/", "-"}

\* [\s:.-]
IsSkipChar(c) == IsSpace(c) \/ c \in {":", ".", "-"}

\* String.prototype.trim
RECURSIVE Trim(_)
Trim(s) ==
    IF s = <<>> THEN s
    ELSE IF IsSpace(s[1]) THEN Trim(Tail(s))
    ELSE IF IsSpace(s[Len(s)]) THEN Trim(SubSeq(s, 1, Len(s) - 1))
    ELSE s

\* [\s:.-]*([\w\s,./-]+\d{1,4}) applied to the text after a trigger phrase:
\* <<k, q>> where k characters are skipped and the capture is after[k+1..q]
CaptureMatches(after) ==
    {t \in (0..Len(after)) \X (1..Len(after)) :
        /\ \A j \in 1..t[1] : IsSkipChar(after[j])
        /\ t[2] >= t[1] + 2
        /\ \A j \in (t[1] + 1)..t[2] : IsPayloadChar(after[j])
        /\ IsDigit(after[t[2]])}

\* match[1] of bodyText.match(deadlineRegex) in part_000, or <<>> when the
\* regex does not match: the skip is as long as it can be, then the capture
Capture(doc) ==
    IF doc.phrase \notin TriggerPhrases THEN <<>>
    ELSE Bind(CaptureMatches(doc.after), LAMBDA M :
         IF M = {} THEN <<>>
         ELSE Bind(CHOOSE k \in {t[1] : t \in M} : \A t \in M : t[1] <= k, LAMBDA k :
              Bind({t[2] : t \in {u \in M : u[1] = k}}, LAMBDA Q :
                   SubSeq(doc.after, k + 1, CHOOSE q \in Q : \A p \in Q : p <= q))))

\* match[1] in part_001: after the phrase, lazily, the first
\* \d{1,2}[./-]\d{1,2}[./-]\d{2,4}
CaptureV1(doc) ==
    LET M == Pattern1Matches(doc.after)
    IN  IF doc.phrase \notin TriggerPhrasesV1 \/ M = {} THEN <<>>
        ELSE LET t == FirstMatch(M)
             IN  SubSeq(doc.after, t[1], t[1] + t[2] + t[3] + t[4] + 1)

\* const today = new Date(); today.setHours(0, 0, 0, 0): midnight of the
\* current day in LOCAL time
Today(now, tz) == ((now + tz) \div 24) * 24 - tz

\* the relevance threshold of "if (score >= 2)"
MinScore == 2

\* foundJobs.some(job => job.link === postUrl)
HasLink(foundJobs, postUrl) == \E i \in 1..Len(foundJobs) : foundJobs[i].link = postUrl

Job(title, link, lastDate) == [title |-> title, link |-> link, lastDate |-> lastDate]

\* A push without the some() test; the deduplication property must not hold of it
PushAlways(foundJobs, job) == Append(foundJobs, job)

\* if (!foundJobs.some(...)) foundJobs.push({ title, link: postUrl, lastDate })
PushUnique(foundJobs, job) ==
    IF HasLink(foundJobs, job.link) THEN foundJobs ELSE Append(foundJobs, job)

\* The callback of validResults.forEach in part_000: foundJobs after it has
\* run on the result {url: postUrl, html: Docs[d]}
ProcessResult(foundJobs, postUrl, d, today, tz) ==
    LET doc == Docs[d]
    IN  Bind(Capture(doc), LAMBDA match :
        IF match = <<>> THEN foundJobs
        ELSE IF Cardinality(doc.keywords) < MinScore THEN foundJobs
        ELSE Bind(Bind(Trim(match), LAMBDA trimmed : parseDate(trimmed, tz)),
                  LAMBDA lastDate :
                  IF lastDate # NULL /\ TimeOf(lastDate) >= today
                  THEN PushUnique(foundJobs, Job(doc.title, postUrl, TimeOf(lastDate)))
                  ELSE foundJobs))

\* The callback of validHtmls.forEach in part_001 (no relevance score)
ProcessResultV1(foundJobs, postUrl, d, today, tz) ==
    LET doc == Docs[d]
    IN  Bind(CaptureV1(doc), LAMBDA match :
        IF match = <<>> THEN foundJobs
        ELSE Bind(parseDateV1(match, tz), LAMBDA lastDate :
                  IF lastDate # NULL /\ TimeOf(lastDate) >= today
                  THEN PushUnique(foundJobs, Job(doc.title, postUrl, TimeOf(lastDate)))
                  ELSE foundJobs))

\* A Promise.all over promises without their .catch: one rejection rejects
\* the whole, and no result is left to extract from.  The partial-failure
\* property must not hold of it.
ValidResultsAllOrNone(uniqueLinks, results) ==
    IF \E k \in 1..Len(results) : results[k].html = 0 THEN <<>>
    ELSE [k \in 1..Len(results) |-> [url |-> uniqueLinks[k], html |-> results[k].html]]

\* results.filter(result => result.html !== null) in part_000: the
\* {url, html} pairs of the fulfilled fetches, in the order of uniqueLinks
RECURSIVE ValidResults(_, _)
ValidResults(uniqueLinks, results) ==
    IF uniqueLinks = <<>> THEN <<>>
    ELSE LET rest == ValidResults(Tail(uniqueLinks), Tail(results))
         IN  IF results[1].html # 0
             THEN <<[url |-> uniqueLinks[1], html |-> results[1].html]>> \o rest
             ELSE rest

\* postHtmls.filter(html => html !== null) in part_001
RECURSIVE ValidHtmls(_)
ValidHtmls(postHtmls) ==
    IF postHtmls = <<>> THEN <<>>
    ELSE IF postHtmls[1].html # 0
         THEN <<postHtmls[1].html>> \o ValidHtmls(Tail(postHtmls))
         ELSE ValidHtmls(Tail(postHtmls))

\* validResults.forEach(result => ...) in part_000
RECURSIVE ForEachResult(_, _, _, _)
ForEachResult(foundJobs, validResults, today, tz) ==
    IF validResults = <<>> THEN foundJobs
    ELSE Bind(ProcessResult(foundJobs, validResults[1].url,
                            validResults[1].html, today, tz),
              LAMBDA pushed : ForEachResult(pushed, Tail(validResults), today, tz))

\* validHtmls.forEach((postHtml, index) => ...) in part_001, where
\* postUrl = uniqueLinks[index] (index is 0-based there, 1-based here)
RECURSIVE ForEachHtml(_, _, _, _, _, _)
ForEachHtml(foundJobs, validHtmls, index, uniqueLinks, today, tz) ==
    IF index > Len(validHtmls) THEN foundJobs
    ELSE Bind(ProcessResultV1(foundJobs, uniqueLinks[index],
                              validHtmls[index], today, tz),
              LAMBDA pushed : ForEachHtml(pushed, validHtmls, index + 1,
                                          uniqueLinks, today, tz))

\* Array.prototype.sort((a, b) => a.lastDate - b.lastDate): stable
RECURSIVE InsertJob(_, _)
InsertJob(sorted, job) ==
    IF sorted = <<>> THEN <<job>>
    ELSE IF sorted[Len(sorted)].lastDate <= job.lastDate THEN Append(sorted, job)
    ELSE Bind(InsertJob(SubSeq(sorted, 1, Len(sorted) - 1), job),
              LAMBDA front : Append(front, sorted[Len(sorted)]))

\* SET_JOBS without the sort: the jobs in the order of the links
UnsortedJobs(jobs) == jobs

RECURSIVE SortJobs(_)
SortJobs(jobs) ==
    IF jobs = <<>> THEN <<>>
    ELSE Bind(SortJobs(SubSeq(jobs, 1, Len(jobs) - 1)),
              LAMBDA sorted : InsertJob(sorted, jobs[Len(jobs)]))

\* Step 3 as a whole: the sorted foundJobs of a run
FoundJobs(program, uniqueLinks, results, time, zone) ==
    Bind(IF program = "part_000"
         THEN Bind(ValidResults(uniqueLinks, results),
                   LAMBDA valid : ForEachResult(<<>>, valid, Today(time, zone), zone))
         ELSE Bind(ValidHtmls(results),
                   LAMBDA valid : ForEachHtml(<<>>, valid, 1, uniqueLinks,
                                              Today(time, zone), zone)),
         LAMBDA foundJobs : SortJobs(foundJobs))

(***************************************************************************)
(* Step 1 of handleFetchJobs: link discovery                               *)
(***************************************************************************)
\* The body of mainDoc.querySelectorAll(...).forEach in part_000 and
\* App.jsx: postLinks (a Set, kept here in insertion order) after one anchor
AddLink(postLinks, anchor) ==
    IF /\ StartsWith(Href(anchor.url), Origin(SeedUrl))
       /\ \E keyword \in JobUrlKeywords :
              keyword \in anchor.urlWords \/ keyword \in anchor.textWords
       /\ \A i \in 1..Len(postLinks) : postLinks[i] # anchor.href
    THEN Append(postLinks, anchor.href)
    ELSE postLinks

\* the same in part_001, which has no keyword test
AddLinkV1(postLinks, anchor) ==
    IF /\ StartsWith(Href(anchor.url), Origin(SeedUrl))
       /\ \A i \in 1..Len(postLinks) : postLinks[i] # anchor.href
    THEN Append(postLinks, anchor.href)
    ELSE postLinks

\* const uniqueLinks = Array.from(postLinks)
RECURSIVE DiscoverLinks(_, _, _)
DiscoverLinks(variant, postLinks, anchors) ==
    IF anchors = <<>> THEN postLinks
    ELSE DiscoverLinks(variant,
                       IF variant = "part_000" THEN AddLink(postLinks, anchors[1])
                       ELSE AddLinkV1(postLinks, anchors[1]),
                       Tail(anchors))

(***************************************************************************)
(* The state of the application                                            *)
(***************************************************************************)
\* how many invocations of handleFetchJobs can be in flight at once
MaxRuns == 2

Runs == 1..MaxRuns

VARIABLES
    variant,    \* which program runs: "part_000" or "part_001"
    tz,         \* the machine's zone, hours ahead of UTC
    now,        \* the time of the crawl, hours since the epoch
    state,      \* the reducer state of useJobCrawler (the useState cells in part_001)
    runs,       \* per invocation of handleFetchJobs: where it is, and its locals
    latest,     \* the invocation started last (0: none yet)
    dateString, \* parseDate on its own: the argument,
    parsed,     \*   what it was rendered from, and the result
    loop,       \* the extraction loop on its own: validResults, index, foundJobs
    titleCall,  \* findTitle on its own: the document and what the call gave
    bodyCall    \* the forEach callback on one body text, and the jobs it gave

vars == <<variant, tz, now, state, runs, latest, dateString, parsed, loop, titleCall,
          bodyCall>>

\* What the page cell of the state can hold: a number, or the function that
\* goToPrevPage (step -1) or goToNextPage (step 1) passes to setPage, which
\* the reducer stores as it is
NumberValue(n) == [type |-> "number", value |-> n]

FunctionValue(step) == [type |-> "function", value |-> step]

\* useReducer(crawlerReducer, {...}): the initial state
InitialState ==
    [url |-> "", jobs |-> <<>>, isLoading |-> FALSE, status |-> "", error |-> "",
     page |-> NumberValue(1), filterDate |-> <<>>, showNextSixMonths |-> FALSE]

Action(type, payload) == [type |-> type, payload |-> payload]

\* A reducer whose SET_PAGE also clears the error, as a close handler that
\* dismisses the modal would need; the frame conditions must fail of it
crawlerReducerClosing(st, action) ==
    CASE action.type = "START_SCAN" ->
            [st EXCEPT !.isLoading = TRUE,
                       !.status = "Step 1/3: Fetching main page to find job links...",
                       !.jobs = <<>>, !.error = "", !.page = NumberValue(1)]
      [] action.type = "UPDATE_STATUS" -> [st EXCEPT !.status = action.payload]
      [] action.type = "SET_JOBS" ->
            [st EXCEPT !.jobs = action.payload, !.isLoading = FALSE, !.status = ""]
      [] action.type = "SET_ERROR" ->
            [st EXCEPT !.error = action.payload, !.isLoading = FALSE, !.status = ""]
      [] action.type = "SET_PAGE" -> [st EXCEPT !.page = action.payload, !.error = ""]
      [] action.type = "SET_URL" -> [st EXCEPT !.url = action.payload]
      [] action.type = "SET_FILTER_DATE" -> [st EXCEPT !.filterDate = action.payload]
      [] action.type = "TOGGLE_SIX_MONTHS_FILTER" ->
            [st EXCEPT !.showNextSixMonths = action.payload]
      [] OTHER -> st

crawlerReducer(st, action) ==
    CASE action.type = "START_SCAN" ->
            [st EXCEPT !.isLoading = TRUE,
                       !.status = "Step 1/3: Fetching main page to find job links...",
                       !.jobs = <<>>, !.error = "", !.page = NumberValue(1)]
      [] action.type = "UPDATE_STATUS" -> [st EXCEPT !.status = action.payload]
      [] action.type = "SET_JOBS" ->
            [st EXCEPT !.jobs = action.payload, !.isLoading = FALSE, !.status = ""]
      [] action.type = "SET_ERROR" ->
            [st EXCEPT !.error = action.payload, !.isLoading = FALSE, !.status = ""]
      [] action.type = "SET_PAGE" -> [st EXCEPT !.page = action.payload]
      [] action.type = "SET_URL" -> [st EXCEPT !.url = action.payload]
      [] action.type = "SET_FILTER_DATE" -> [st EXCEPT !.filterDate = action.payload]
      [] action.type = "TOGGLE_SIX_MONTHS_FILTER" ->
            [st EXCEPT !.showNextSixMonths = action.payload]
      [] OTHER -> st

\* the locals of an invocation that has not started
\* (pc: "idle", "seed": awaiting the seed page, "fetching": awaiting
\* Promise.all, "done"; seed: how the seed fetch settled; dispatched: the
\* types of the actions the invocation has dispatched, where part_001's
\* setError(message) counts as SET_ERROR and its setJobs as SET_JOBS)
IdleRun ==
    [pc |-> "idle", seed |-> "none", anchors |-> <<>>, uniqueLinks |-> <<>>, results |-> <<>>,
     foundJobs |-> <<>>, dispatched |-> <<>>]

\* the messages of the errors thrown in the try block
FetchFailed == "Failed to fetch " \o SiteUrl

NoContent == "Could not fetch the main page content."

NoLinks ==
    IF variant = "part_000"
    THEN "Could not find any potential job post links. Try a more specific URL."
    ELSE "Could not find any potential job post links."

NoUrl == "Please enter a website URL."

NoJobs == "Scan complete. No jobs with future deadlines were found."

\* A catch that reports the error but leaves the loading flag on; the
\* fatal-error property must not hold of it
CaughtStillLoading(st, message) == [st EXCEPT !.error = message]

\* A catch that turns the loading flag off but leaves the status line as it
\* is; a finished scan then still shows "Step 1/3: ..."
CaughtKeepsStatus(st, message) == [st EXCEPT !.error = message, !.isLoading = FALSE]

\* catch: what the run does with the message of a thrown error, and (in
\* part_001) the finally block
Caught(st, message) ==
    IF variant = "part_000"
    THEN crawlerReducer(st, Action("SET_ERROR", message))
    ELSE [st EXCEPT !.error = "An error occurred: " \o message,
                    !.isLoading = FALSE, !.status = ""]

\* A race instead of a barrier: resuming as soon as one promise has settled;
\* the barrier property must not hold of it
AnySettled(results) == \E k \in 1..Len(results) : results[k].settled

\* results of Promise.all(promises): every promise has settled
AllSettled(results) == \A k \in 1..Len(results) : results[k].settled

\* parseDate and the extraction loop are not being exercised on their own
NotParsed == [format |-> "none", padded |-> FALSE, year |-> 0, month |-> 0, day |-> 0,
              returned |-> FALSE, result |-> NULL]

NoLoop == [validResults |-> <<>>, index |-> 0, foundJobs |-> <<>>]

\* findTitle is not being exercised on its own
NoTitleCall == [parsed |-> FALSE, postDoc |-> <<>>, outcome |-> "none", title |-> <<>>]

\* the callback is not being exercised on a body text
NoBodyCall == [parsed |-> FALSE, bodyText |-> <<>>, returned |-> FALSE, foundJobs |-> <<>>]

Init ==
    /\ variant \in {"part_000", "part_001"}
    /\ tz \in TzOffsets
    /\ now \in {CrawlDay + h : h \in HoursOfDay}
    /\ state = InitialState
    /\ runs = [r \in Runs |-> IdleRun]
    /\ latest = 0
    /\ dateString = <<>>
    /\ parsed = NotParsed
    /\ loop = NoLoop
    /\ titleCall = NoTitleCall
    /\ bodyCall = NoBodyCall

\* setUrl(newUrl) of the hook (setUrl of useState in part_001)
SetUrl(u) ==
    /\ u # state.url
    /\ state' = crawlerReducer(state, Action("SET_URL", u))
    /\ UNCHANGED <<variant, tz, now, runs, latest, dateString, parsed, loop, titleCall, bodyCall>>

\* handleFetchJobs up to its first await, as invocation r
HandleFetchJobs(r) ==
    /\ runs[r].pc \in {"idle", "done"}
    /\ \A q \in Runs : q < r => runs[q].pc \notin {"idle", "done"}
    /\ IF state.url = ""
       THEN /\ state' = IF variant = "part_000"
                        THEN crawlerReducer(state, Action("SET_ERROR", NoUrl))
                        ELSE [state EXCEPT !.error = NoUrl]
            /\ UNCHANGED <<runs, latest>>
       ELSE \* part_001: setIsLoading(true), setError(''), setJobs([]), setPage(1)
            \* and setStatus('Step 1/3: ...'), which is what START_SCAN does
            /\ state' = crawlerReducer(state, Action("START_SCAN", ""))
            /\ runs' = [runs EXCEPT ![r] = [IdleRun EXCEPT !.pc = "seed",
                                                          !.dispatched = <<"START_SCAN">>]]
            /\ latest' = r
    /\ UNCHANGED <<variant, tz, now, dateString, parsed, loop, titleCall, bodyCall>>

\* onChange of the URL field, which part_000 disables while isLoading
TypeUrl(u) ==
    /\ variant = "part_000" => ~state.isLoading
    /\ SetUrl(u)

\* onClick of the Start Scan button, which is disabled while isLoading
ClickStartScan(r) ==
    /\ ~state.isLoading
    /\ HandleFetchJobs(r)

SeedOutcomes ==
    {[kind |-> "rejected", anchors |-> <<>>], [kind |-> "empty", anchors |-> <<>>]}
    \cup {[kind |-> "html", anchors |-> p] : p \in SeedPages}

\* await fetchHtml(correctedUrl) settles, and the run goes on to its next
\* await (Promise.all) or to its catch
SeedSettles(r, outcome) ==
    /\ runs[r].pc = "seed"
    /\ LET links == DiscoverLinks(variant, <<>>, outcome.anchors)
           error == IF outcome.kind = "rejected" THEN FetchFailed
                    ELSE IF outcome.kind = "empty" THEN NoContent
                    ELSE IF links = <<>> THEN NoLinks ELSE ""
       IN  IF error # ""
           THEN /\ state' = Caught(state, error)
                /\ runs' = [runs EXCEPT ![r].pc = "done",
                                        ![r].seed = outcome.kind,
                                        ![r].anchors = outcome.anchors,
                                        ![r].dispatched = Append(@, "SET_ERROR")]
           ELSE /\ state' = crawlerReducer(state,
                                Action("UPDATE_STATUS", "Step 2/3: Analyzing found links..."))
                /\ runs' = [runs EXCEPT ![r].pc = "fetching",
                                        ![r].seed = outcome.kind,
                                        ![r].anchors = outcome.anchors,
                                        ![r].uniqueLinks = links,
                                        ![r].results = [k \in 1..Len(links) |-> Pending],
                                        ![r].dispatched = Append(@, "UPDATE_STATUS")]
    /\ UNCHANGED <<variant, tz, now, latest, dateString, parsed, loop, titleCall, bodyCall>>

\* the promise of candidate k settles
FetchSettles(r, k, outcome) ==
    /\ runs[r].pc = "fetching"
    /\ k \in 1..Len(runs[r].results)
    /\ ~runs[r].results[k].settled
    /\ runs' = [runs EXCEPT ![r].results[k] = outcome]
    /\ UNCHANGED <<variant, tz, now, state, latest, dateString, parsed, loop, titleCall, bodyCall>>

\* the run resumes after await Promise.all(promises): step 3 and the final
\* dispatch (in part_001: setError or setJobs, then the finally block)
Resume(r) ==
    /\ runs[r].pc = "fetching"
    /\ AllSettled(runs[r].results)
    /\ \E foundJobs \in {FoundJobs(variant, runs[r].uniqueLinks, runs[r].results, now, tz)} :
           /\ state' =
                IF variant = "part_000"
                THEN crawlerReducer(state, Action("SET_JOBS", foundJobs))
                ELSE IF foundJobs = <<>>
                THEN [state EXCEPT !.error = NoJobs, !.isLoading = FALSE, !.status = ""]
                ELSE [state EXCEPT !.jobs = foundJobs, !.page = NumberValue(1),
                                   !.isLoading = FALSE, !.status = ""]
           /\ runs' = [runs EXCEPT ![r].pc = "done",
                                   ![r].foundJobs = foundJobs,
                                   ![r].dispatched =
                                       Append(Append(@, "UPDATE_STATUS"),
                                              IF variant = "part_001" /\ foundJobs = <<>>
                                              THEN "SET_ERROR" ELSE "SET_JOBS")]
    /\ UNCHANGED <<variant, tz, now, latest, dateString, parsed, loop, titleCall, bodyCall>>

Next ==
    \/ \E u \in Urls : TypeUrl(u)
    \/ \E r \in Runs : ClickStartScan(r)
    \/ \E r \in Runs, outcome \in SeedOutcomes : SeedSettles(r, outcome)
    \/ \E r \in Runs, k \in 1..2, outcome \in FetchOutcomes : FetchSettles(r, k, outcome)
    \/ \E r \in Runs : Resume(r)

Spec == Init /\ [][Next]_vars

(***************************************************************************)
(* Properties of a crawl run                                               *)
(***************************************************************************)
\* the runs that have returned
DoneRuns == {r \in Runs : runs[r].pc = "done"}

\* the runs that went through step 3
ExtractedRuns == {r \in DoneRuns : runs[r].seed = "html" /\ runs[r].uniqueLinks # <<>>}

\* the runs that ended in a fatal error: the seed fetch failed or gave no
\* content, or no candidate link was found
FatalRuns == DoneRuns \ ExtractedRuns

HasTitle(jobs, title) == \E j \in 1..Len(jobs) : jobs[j].title = title

\* the candidates of run r whose fetch failed
FailedFetches(r) == {k \in 1..Len(runs[r].results) : runs[r].results[k] = Rejected}

\* document d, fetched alone from link, passes extraction
PassesExtraction(link, d) == FoundJobs(variant, <<link>>, <<Fulfilled(d)>>, now, tz) # <<>>

\* "today" as the specification has it: UTC midnight of the crawl day
UTCToday == (now \div 24) * 24

\* C2: a run with N >= 2 candidates of which exactly one fetch failed goes
\* through extraction and ends with its job list shown and loading off, and
\* every other fetched document that passes extraction has its job in that list
C2_PartialFailure ==
    \A r \in ExtractedRuns :
        (Len(runs[r].results) >= 2 /\ Cardinality(FailedFetches(r)) = 1) =>
            /\ r = latest => (state.jobs = runs[r].foundJobs /\ ~state.isLoading)
            /\ \A k \in 1..Len(runs[r].results) :
                   (/\ runs[r].results[k].html # 0
                    /\ PassesExtraction(runs[r].uniqueLinks[k], runs[r].results[k].html))
                   => HasTitle(runs[r].foundJobs, Docs[runs[r].results[k].html].title)

\* a run in which the first fetch failed and the second gave a job
C2_Witness ==
    \E r \in ExtractedRuns :
        /\ Len(runs[r].results) = 2
        /\ runs[r].results[1] = Rejected
        /\ runs[r].results[2] = Fulfilled(3)
        /\ HasTitle(state.jobs, "future")

\* C3: extraction and the assembly of the job list begin only after every
\* candidate fetch of the run has settled: a run that has extracted, holds
\* jobs or has dispatched its jobs has no pending fetch
C3_Barrier ==
    \A r \in Runs :
        (\/ r \in ExtractedRuns
         \/ runs[r].foundJobs # <<>>
         \/ \E i \in 1..Len(runs[r].dispatched) : runs[r].dispatched[i] = "SET_JOBS")
        => \A k \in 1..Len(runs[r].results) : runs[r].results[k] # Pending

\* a run that extracted two jobs after both of its fetches had succeeded
C3_Witness ==
    \E r \in ExtractedRuns :
        /\ Len(runs[r].foundJobs) = 2
        /\ \A k \in 1..Len(runs[r].results) : runs[r].results[k].html # 0

\* C5: a run whose seed fetch failed or gave no content, or whose link
\* discovery gave no candidate, ends with exactly one error reported, no job,
\* loading off, and no candidate fetched or extracted
C5_FatalErrors ==
    \A r \in FatalRuns :
        /\ Cardinality({i \in 1..Len(runs[r].dispatched) :
                            runs[r].dispatched[i] = "SET_ERROR"}) = 1
        /\ \A i \in 1..Len(runs[r].dispatched) : runs[r].dispatched[i] # "SET_JOBS"
        /\ runs[r].results = <<>>
        /\ runs[r].foundJobs = <<>>
        /\ r = latest => (state.jobs = <<>> /\ ~state.isLoading /\ state.error # "")

\* a run of part_000 that ended because the seed page had no candidate link
C5_Witness ==
    \E r \in FatalRuns :
        /\ variant = "part_000"
        /\ runs[r].seed = "html"
        /\ state.error = NoLinks

\* C6: a run whose seed fetch succeeded and that found candidates, none of
\* which gave a job, ends as a success: it reports nothing through the error
\* channel and its last dispatch is the (empty) job list
C6_EmptySuccess ==
    \A r \in ExtractedRuns :
        runs[r].foundJobs = <<>> =>
            /\ \A i \in 1..Len(runs[r].dispatched) : runs[r].dispatched[i] # "SET_ERROR"
            /\ runs[r].dispatched[Len(runs[r].dispatched)] = "SET_JOBS"

\* C7: every job a run produces has lastDate on or after UTC midnight of the
\* crawl day, whatever the zone of the machine
C7_NoPastDeadline ==
    \A r \in Runs : \A j \in 1..Len(runs[r].foundJobs) :
        runs[r].foundJobs[j].lastDate >= UTCToday

\* C8: a fetched document with a trigger phrase and a parseable date not
\* before today gives a job if and only if at least 2 of the seven keywords
\* occur in it, and a document without a trigger phrase gives none
C8_RelevanceGate ==
    \A r \in ExtractedRuns : \A k \in 1..Len(runs[r].results) :
        runs[r].results[k].html # 0 =>
            LET doc      == Docs[runs[r].results[k].html]
                lastDate == parseDate(Trim(Capture(doc)), tz)
            IN  /\ (/\ doc.phrase \in TriggerPhrases
                    /\ lastDate # NULL
                    /\ TimeOf(lastDate) >= UTCToday)
                   => (HasTitle(runs[r].foundJobs, doc.title)
                       <=> Cardinality(doc.keywords \cap JobKeywords) >= 2)
                /\ doc.phrase = "none" => ~HasTitle(runs[r].foundJobs, doc.title)

\* the deadline the program extracts from a fetched document, NULL if none
ExtractedDeadline(doc) ==
    IF variant = "part_000" THEN parseDate(Trim(Capture(doc)), tz)
    ELSE parseDateV1(CaptureV1(doc), tz)

\* C20: a fetched document whose extracted deadline is UTC midnight of the
\* crawl day (and that passes the relevance gate where there is one) gives a
\* job, in every zone of the machine
C20_DeadlineTodayKept ==
    \A r \in ExtractedRuns : \A k \in 1..Len(runs[r].results) :
        runs[r].results[k].html # 0 =>
            LET doc      == Docs[runs[r].results[k].html]
                lastDate == ExtractedDeadline(doc)
            IN  (/\ lastDate # NULL
                 /\ TimeOf(lastDate) = UTCToday
                 /\ variant = "part_000" => Cardinality(doc.keywords) >= MinScore)
                => HasTitle(runs[r].foundJobs, doc.title)

\* C22: every job of a run has the link of a candidate whose fetch gave the
\* document that the job's title and lastDate come from, whatever fetches
\* failed
C22_LinkOfDocument ==
    \A r \in ExtractedRuns : \A j \in 1..Len(runs[r].foundJobs) :
        \E k \in 1..Len(runs[r].uniqueLinks) :
            /\ runs[r].uniqueLinks[k] = runs[r].foundJobs[j].link
            /\ runs[r].results[k].html # 0
            /\ Docs[runs[r].results[k].html].title = runs[r].foundJobs[j].title
            /\ ExtractedDeadline(Docs[runs[r].results[k].html])
               = DateOf(runs[r].foundJobs[j].lastDate)

\* a pending fetch settles: the promise of the seed page or of a candidate
Settle ==
    \/ \E r \in Runs, outcome \in SeedOutcomes : SeedSettles(r, outcome)
    \/ \E r \in Runs, k \in 1..2, outcome \in FetchOutcomes : FetchSettles(r, k, outcome)

\* Promise.all(promises) has settled and the awaiting run has not resumed:
\* where Resume is enabled
Awaited == \E r \in Runs : runs[r].pc = "fetching" /\ AllSettled(runs[r].results)

\* the step of Resume: the one step that takes a run from the await to its end
Resumed == \E r \in Runs : runs[r].pc = "fetching" /\ runs'[r].pc = "done"

\* Every fetch settles in the end, and a run whose awaited promise has
\* settled resumes (the job queue of the event loop): weak fairness of
\* Settle and of Resume, the second written out with Awaited for ENABLED.
SpecLive ==
    /\ Spec
    /\ WF_vars(Settle)
    /\ ([]<>(~Awaited) \/ []<><<Resumed>>_vars)

\* a scan has started and has not returned
InFlight == \E r \in Runs : runs[r].pc \in {"seed", "fetching"}

\* C24: when loading is off the status line is empty, and every started scan
\* comes to its end with loading off and the status line empty
C24_RunTerminates ==
    /\ [](~state.isLoading => state.status = "")
    /\ InFlight ~> (~InFlight /\ ~state.isLoading /\ state.status = "")

\* a scan has ended with its jobs shown, loading off and no status
C24_Witness ==
    /\ 1 \in ExtractedRuns
    /\ runs[1].foundJobs # <<>>
    /\ state.jobs = runs[1].foundJobs
    /\ ~state.isLoading
    /\ state.status = ""

(***************************************************************************)
(* The hook on its own: handleFetchJobs as useJobCrawler returns it, which *)
(* any caller may invoke at any time (the button of App is what keeps      *)
(* isLoading in front of it)                                               *)
(***************************************************************************)
HookOutcomes == {Rejected, Fulfilled(3), Fulfilled(6)}

InitHook == Init /\ variant = "part_000" /\ tz = 0 /\ now = CrawlDay + 3

NextHook ==
    \/ \E u \in Urls : SetUrl(u)
    \/ \E r \in Runs : HandleFetchJobs(r)
    \/ \E r \in Runs, outcome \in SeedOutcomes : SeedSettles(r, outcome)
    \/ \E r \in Runs, k \in 1..2, outcome \in HookOutcomes : FetchSettles(r, k, outcome)
    \/ \E r \in Runs : Resume(r)

SpecHook == InitHook /\ [][NextHook]_vars

Years == {2024, 2025}

\* D/M/Y, D-M-Y and D.M.Y with a 4-digit year, the same with a 2-digit year
\* (YY), and Y-M-D
DayFirstFormats == {"D/M/Y", "D-M-Y", "D.M.Y", "D/M/YY", "D-M-YY", "D.M.YY"}

NumericFormats == DayFirstFormats \cup {"Y-M-D"}

\* the decimal digits of n, at least width of them
RECURSIVE Decimal(_, _)
Decimal(n, width) ==
    IF n < 10 /\ width <= 1 THEN <<Digits[n + 1]>>
    ELSE Decimal(n \div 10, width - 1) \o <<Digits[(n % 10) + 1]>>

\* the rendering of day d, month m (1..12), year y in a numeric format,
\* day and month zero-padded to two digits or not
Render(format, padded, y, m, d) ==
    LET w   == IF padded THEN 2 ELSE 1
        sep == IF format \in {"D/M/Y", "D/M/YY"} THEN <<"/">>
               ELSE IF format \in {"D.M.Y", "D.M.YY"} THEN <<".">> ELSE <<"-">>
    IN  IF format = "Y-M-D"
        THEN Decimal(y, 4) \o sep \o Decimal(m, w) \o sep \o Decimal(d, w)
        ELSE IF format \in {"D/M/YY", "D-M-YY", "D.M.YY"}
        THEN Decimal(d, w) \o sep \o Decimal(m, w) \o sep \o Decimal(y % 100, 2)
        ELSE Decimal(d, w) \o sep \o Decimal(m, w) \o sep \o Decimal(y, 4)

\* the zones parseDate is run in: one behind and one ahead of UTC
DateZones == {-8, 5}

\* part_001 is given day-first dates only, which it builds with Date.UTC:
\* one zone is enough for it
InitDate ==
    /\ Init
    /\ tz \in DateZones
    /\ variant = "part_001" => tz = 5
    /\ now = CrawlDay + 3

\* a caller builds the argument
FormatDate(format, padded, y, m, d) ==
    /\ parsed.format = "none"
    \* in part_001 the argument is the capture group of deadlineRegex, D/M/Y
    /\ variant = "part_001" => format \in DayFirstFormats
    /\ dateString' = Render(format, padded, y, m, d)
    /\ parsed' = [NotParsed EXCEPT !.format = format, !.padded = padded,
                                   !.year = y, !.month = m, !.day = d]
    /\ UNCHANGED <<variant, tz, now, state, runs, latest, loop, titleCall, bodyCall>>

\* parseDate(dateString) returns
CallParseDate ==
    /\ parsed.format # "none"
    /\ ~parsed.returned
    /\ parsed' = [parsed EXCEPT !.returned = TRUE,
                                 !.result = IF variant = "part_000"
                                            THEN parseDate(dateString, tz)
                                            ELSE parseDateV1(dateString, tz)]
    /\ UNCHANGED <<variant, tz, now, state, runs, latest, dateString, loop, titleCall, bodyCall>>

NextDate ==
    \/ /\ parsed.format = "none"
       /\ \E format \in NumericFormats, padded \in BOOLEAN,
             y \in Years, m \in 1..12, d \in 1..31 : FormatDate(format, padded, y, m, d)
    \/ CallParseDate

SpecDate == InitDate /\ [][NextDate]_vars

\* C9: the D/M/Y rendering of a day and month that do not make a calendar
\* date parses to null
C9_InvalidDateRejected ==
    (/\ parsed.returned
     /\ parsed.format \in {"D/M/Y", "D-M-Y", "D.M.Y"}
     /\ ~ValidDate(parsed.year, parsed.month, parsed.day))
    => parsed.result = NULL

\* C10: the Y-M-D rendering of a calendar date parses to that year, month
\* and day
C10_IsoRoundTrip ==
    (/\ parsed.returned
     /\ parsed.format = "Y-M-D"
     /\ ValidDate(parsed.year, parsed.month, parsed.day))
    => parsed.result = DateOf(DateUTC(parsed.year, parsed.month - 1, parsed.day))

\* C11: the D/M/Y, D-M-Y or D.M.Y rendering of a calendar date, with a
\* 4-digit year or with a 2-digit year read as 2000 + YY, parses to UTC
\* midnight of that day, month and year
C11_DayFirstRoundTrip ==
    (/\ parsed.returned
     /\ parsed.format \in DayFirstFormats
     /\ ValidDate(parsed.year, parsed.month, parsed.day))
    => parsed.result = DateOf(24 * (DaysFromCivil(parsed.year, parsed.month) + parsed.day - 1))

\* part_001 has parsed "29.2.24" (unpadded, 2-digit leap year) to 29 February 2024
C11_Witness ==
    /\ variant = "part_001"
    /\ parsed.returned
    /\ dateString = <<"2", "9", ".", "2", ".", "2", "4">>
    /\ parsed.result = DateOf(DateUTC(2024, 1, 29))

(***************************************************************************)
(* parseDate on text: dates written with the name of the month, and text   *)
(* that holds no date                                                      *)
(***************************************************************************)
MonthNames ==
    <<<<"J", "a", "n", "u", "a", "r", "y">>,
      <<"F", "e", "b", "r", "u", "a", "r", "y">>,
      <<"M", "a", "r", "c", "h">>,
      <<"A", "p", "r", "i", "l">>,
      <<"M", "a", "y">>,
      <<"J", "u", "n", "e">>,
      <<"J", "u", "l", "y">>,
      <<"A", "u", "g", "u", "s", "t">>,
      <<"S", "e", "p", "t", "e", "m", "b", "e", "r">>,
      <<"O", "c", "t", "o", "b", "e", "r">>,
      <<"N", "o", "v", "e", "m", "b", "e", "r">>,
      <<"D", "e", "c", "e", "m", "b", "e", "r">>>>

\* "15 January 2025", "January 15, 2025" and "Jan 15 2025"
TextFormats == {"D Month Y", "Month D, Y", "Mon D Y"}

\* the rendering of day d, month m (1..12), year y with the month's name
RenderText(format, y, m, d) ==
    IF format = "D Month Y"
    THEN Decimal(d, 1) \o <<" ">> \o MonthNames[m] \o <<" ">> \o Decimal(y, 4)
    ELSE IF format = "Month D, Y"
    THEN MonthNames[m] \o <<" ">> \o Decimal(d, 1) \o <<",", " ">> \o Decimal(y, 4)
    ELSE SubSeq(MonthNames[m], 1, 3) \o <<" ">> \o Decimal(d, 1) \o <<" ">> \o Decimal(y, 4)

\* arguments without a date: the empty string (null takes the same branch
\* of "if (!dateString)") and words without a digit
NoDateStrings == {<<>>, <<"t", "b", "d">>, <<"n", "o", "t", " ", "s", "e", "t">>,
                  <<"M", "a", "y", "b", "e">>}

InitText == Init /\ variant = "part_000" /\ now = CrawlDay + 3

\* a caller passes a calendar date written with the month's name
FormatText(format, y, m, d) ==
    /\ parsed.format = "none"
    /\ ValidDate(y, m, d)
    /\ dateString' = RenderText(format, y, m, d)
    /\ parsed' = [NotParsed EXCEPT !.format = format, !.year = y, !.month = m, !.day = d]
    /\ UNCHANGED <<variant, tz, now, state, runs, latest, loop, titleCall, bodyCall>>

\* a caller passes text without a date
PassNoDate(s) ==
    /\ parsed.format = "none"
    /\ dateString' = s
    /\ parsed' = [NotParsed EXCEPT !.format = "no date"]
    /\ UNCHANGED <<variant, tz, now, state, runs, latest, loop, titleCall, bodyCall>>

NextText ==
    \/ /\ parsed.format = "none"
       /\ \E format \in TextFormats, y \in Years, m \in 1..12, d \in 1..31 :
             FormatText(format, y, m, d)
    \/ \E s \in NoDateStrings : PassNoDate(s)
    \/ CallParseDate

SpecText == InitText /\ [][NextText]_vars

\* UTC midnight of a calendar date
UTCMidnight(y, m, d) == 24 * (DaysFromCivil(y, m) + d - 1)

\* C12: a calendar date written with the month's name, the day before it
\* or after it, parses to UTC midnight of that date in every zone
C12_TextualRoundTrip ==
    (parsed.returned /\ parsed.format \in TextFormats)
    => parsed.result = DateOf(UTCMidnight(parsed.year, parsed.month, parsed.day))

\* C13: parseDate returns null or a date for every argument, null for the
\* empty string (and null), and null for text in which no pattern and no
\* date is found
C13_Total ==
    parsed.returned =>
        /\ parsed.result = NULL \/ Len(parsed.result) = 1
        /\ dateString = <<>> => parsed.result = NULL
        /\ parsed.format = "no date" => parsed.result = NULL

\* "Maybe" has gone through all three patterns and new Date, and gave null
C13_Witness ==
    /\ parsed.returned
    /\ dateString = <<"M", "a", "y", "b", "e">>
    /\ Pattern1Matches(dateString) = {}
    /\ Pattern2Matches(dateString) = {}
    /\ Pattern3Matches(dateString) = {}
    /\ parsed.result = NULL

(***************************************************************************)
(* The extraction loop of part_000 on its own: validResults.forEach on any *)
(* list of results, also one in which a url occurs more than once          *)
(***************************************************************************)
\* the longest list of results
MaxResults == 3

\* the results the list is made of: under one url a document with a past
\* date and two that give a job, and one of the latter under a second url
LoopResults ==
    {[url |-> Link1, html |-> d] : d \in {1, 2, 3}} \cup {[url |-> Link2, html |-> 3]}

RECURSIVE SeqsUpTo(_, _)
SeqsUpTo(S, n) ==
    IF n = 0 THEN {<<>>}
    ELSE LET shorter == SeqsUpTo(S, n - 1)
         IN  shorter \cup {Append(q, x) : q \in {t \in shorter : Len(t) = n - 1}, x \in S}

InitLoop ==
    /\ variant = "part_000"
    /\ tz = -8
    /\ now = CrawlDay + 3
    /\ state = InitialState
    /\ runs = [r \in Runs |-> IdleRun]
    /\ latest = 0
    /\ dateString = <<>>
    /\ parsed = NotParsed
    /\ loop \in {[NoLoop EXCEPT !.validResults = v, !.index = 1] :
                    v \in SeqsUpTo(LoopResults, MaxResults) \ {<<>>}}
    /\ titleCall = NoTitleCall
    /\ bodyCall = NoBodyCall

\* one call of the forEach callback
ForEachStep ==
    /\ loop.index >= 1
    /\ loop.index <= Len(loop.validResults)
    /\ loop' = [loop EXCEPT
                  !.index = @ + 1,
                  !.foundJobs = ProcessResult(@, loop.validResults[loop.index].url,
                                              loop.validResults[loop.index].html,
                                              Today(now, tz), tz)]
    /\ UNCHANGED <<variant, tz, now, state, runs, latest, dateString, parsed, titleCall, bodyCall>>

NextLoop == ForEachStep

SpecLoop == InitLoop /\ [][NextLoop]_vars

\* result i of the loop, processed alone, gives a job
GivesJob(i) ==
    ProcessResult(<<>>, loop.validResults[i].url, loop.validResults[i].html,
                  Today(now, tz), tz) # <<>>

\* C1: no two jobs of the list have the same link, and the job kept for a
\* link is the one of the first processed document with that url that gives
\* a job
C1_Deduplication ==
    /\ \A i, j \in 1..Len(loop.foundJobs) :
           i # j => loop.foundJobs[i].link # loop.foundJobs[j].link
    /\ \A j \in 1..Len(loop.foundJobs) :
           LET same == {i \in 1..(loop.index - 1) :
                           /\ loop.validResults[i].url = loop.foundJobs[j].link
                           /\ GivesJob(i)}
           IN  /\ same # {}
               /\ \A i \in same :
                      (\A h \in same : i <= h) =>
                          loop.foundJobs[j].title = Docs[loop.validResults[i].html].title
    /\ \A i \in 1..(loop.index - 1) :
           GivesJob(i) => HasLink(loop.foundJobs, loop.validResults[i].url)

\* the loop has finished on three results with the same url, of which the
\* second and the third give a job, and has kept the second
C1_Witness ==
    /\ loop.index = 4
    /\ \A i \in 1..3 : loop.validResults[i] = [url |-> Link1, html |-> i]
    /\ Len(loop.foundJobs) = 1
    /\ loop.foundJobs[1].title = "today"

(***************************************************************************)
(* Link discovery on any seed page                                         *)
(***************************************************************************)
\* the most anchors of a seed page
MaxAnchors == 4

\* a host that goes on after the seed's host
LookalikeAnchor ==
    Anchor("https://example.com.evil.org/job/7",
           Url("https://", <<"example.com", ".evil.org">>, "/job/7"), {"job"}, {})

\* a same-site anchor with a keyword in its text only ("Vacancy: clerk")
VacancyAnchor ==
    Anchor("https://example.com/p/3", Url("https://", <<"example.com">>, "/p/3"),
           {}, {"vacancy"})

AnchorPool ==
    {JobAnchor, CareersAnchor, AboutAnchor, OtherSiteAnchor, LookalikeAnchor, VacancyAnchor}

LinkPages == SeqsUpTo(AnchorPool, MaxAnchors) \ {<<>>}

InitLinks == Init /\ tz = 0 /\ now = CrawlDay + 3

NextLinks ==
    \/ \E u \in Urls : TypeUrl(u)
    \/ \E r \in Runs : ClickStartScan(r)
    \/ \E r \in Runs, page \in LinkPages :
          SeedSettles(r, [kind |-> "html", anchors |-> page])

SpecLinks == InitLinks /\ [][NextLinks]_vars

\* the runs whose link discovery has run
DiscoveredRuns == {r \in Runs : runs[r].seed = "html"}

\* the anchor has the origin of the seed URL
SameOrigin(anchor) == Origin(anchor.url) = Origin(SeedUrl)

\* a keyword occurs in the anchor's lowercased URL or text
JobLike(anchor) == (anchor.urlWords \cup anchor.textWords) \cap JobUrlKeywords # {}

\* C14: every candidate link is the href of an anchor with the origin of the
\* seed URL; an anchor whose host only begins with the seed's host is no
\* candidate and has no fetch
C14_SameOriginOnly ==
    \A r \in DiscoveredRuns : \A k \in 1..Len(runs[r].uniqueLinks) :
        \E i \in 1..Len(runs[r].anchors) :
            /\ runs[r].anchors[i].href = runs[r].uniqueLinks[k]
            /\ SameOrigin(runs[r].anchors[i])

\* C15: the candidates are exactly the hrefs of the same-origin anchors with
\* a keyword in their URL or text
C15_KeywordFilter ==
    \A r \in DiscoveredRuns :
        {runs[r].uniqueLinks[k] : k \in 1..Len(runs[r].uniqueLinks)}
        = {runs[r].anchors[i].href :
             i \in {j \in 1..Len(runs[r].anchors) :
                      SameOrigin(runs[r].anchors[j]) /\ JobLike(runs[r].anchors[j])}}

(***************************************************************************)
(* The deadline filters of part_000 (filteredJobs of App) and of App.jsx   *)
(* (finalJobs of handleFetchJobs)                                          *)
(***************************************************************************)
\* the year, month (1..12) and day of day number n since 1970-01-01
CivilFromDays(n) ==
    CHOOSE c \in (2024..2026) \X (1..12) \X (1..31) :
        ValidDate(c[1], c[2], c[3]) /\ DaysFromCivil(c[1], c[2]) + c[3] - 1 = n

\* new Date(filterDate) for the value "YYYY-MM-DD" of an <input type="date">:
\* a date-only ISO string is UTC midnight
NewDateIso(s) ==
    DateUTC(ParseInt(SubSeq(s, 1, 4)), ParseInt(SubSeq(s, 6, 7)) - 1,
            ParseInt(SubSeq(s, 9, 10)))

\* date.toISOString().split('T')[0]
IsoDay(t) ==
    Bind(CivilFromDays(t \div 24), LAMBDA c : Render("Y-M-D", TRUE, c[1], c[2], c[3]))

\* const sixMonthsFromNow = new Date(); sixMonthsFromNow.setMonth(getMonth() + 6):
\* the month of the local date and time goes up by 6, and rolls over
SixMonthsFromNow(time, zone) ==
    Bind(CivilFromDays((time + zone) \div 24), LAMBDA c :
         DateUTC(c[1], c[2] - 1 + 6, c[3]) + ((time + zone) % 24) - zone)

\* jobs.filter(job => ...) of App in part_000
filteredJobs(st, time, zone) ==
    IF st.filterDate # <<>>
    THEN Bind(NewDateIso(st.filterDate), LAMBDA selected :
              SelectSeq(st.jobs, LAMBDA job : job.lastDate <= selected))
    ELSE IF st.showNextSixMonths
    THEN Bind(SixMonthsFromNow(time, zone), LAMBDA horizon :
              SelectSeq(st.jobs, LAMBDA job : job.lastDate <= horizon))
    ELSE st.jobs

\* finalJobs of handleFetchJobs in App.jsx
finalJobs(foundJobs, filterDate) ==
    IF filterDate = <<>> THEN foundJobs
    ELSE LET exactMatchJobs ==
                 SelectSeq(foundJobs, LAMBDA job : IsoDay(job.lastDate) = filterDate)
             selectedDate == NewDateIso(filterDate)
             candidateJobs ==
                 SelectSeq(foundJobs, LAMBDA job : job.lastDate <= selectedDate)
             nearestDate ==
                 CHOOSE t \in {candidateJobs[i].lastDate : i \in 1..Len(candidateJobs)} :
                     \A i \in 1..Len(candidateJobs) : candidateJobs[i].lastDate <= t
         IN  IF exactMatchJobs # <<>> THEN exactMatchJobs
             ELSE IF candidateJobs # <<>>
             THEN SelectSeq(candidateJobs, LAMBDA job : job.lastDate = nearestDate)
             ELSE <<>>

\* the most jobs of a crawl
MaxJobs == 3

\* jobs a crawl can find: deadlines on 10, 15 (two of them), 20 January and
\* on 1 August 2025
JobPool ==
    {Job("a", "https://example.com/job/a", DateUTC(2025, 0, 10)),
     Job("b", "https://example.com/job/b", DateUTC(2025, 0, 15)),
     Job("c", "https://example.com/job/c", DateUTC(2025, 0, 15)),
     Job("d", "https://example.com/job/d", DateUTC(2025, 0, 20)),
     Job("e", "https://example.com/job/e", DateUTC(2025, 7, 1))}

\* foundJobs before the sort: no link twice
JobLists ==
    {l \in SeqsUpTo(JobPool, MaxJobs) : \A i, j \in 1..Len(l) : i # j => l[i] # l[j]}

\* the values of the date input: none, 5, 15 and 17 January 2025
FilterDates == {<<>>} \cup {Render("Y-M-D", TRUE, 2025, 1, d) : d \in {5, 15, 17}}

InitFilter == Init /\ variant = "part_000" /\ now = CrawlDay + 3

\* the end of a crawl: foundJobs.sort(...) and dispatch SET_JOBS
CrawlEnds(foundJobs) ==
    /\ state.jobs = <<>>
    /\ state' = crawlerReducer(state, Action("SET_JOBS", SortJobs(foundJobs)))
    /\ UNCHANGED <<variant, tz, now, runs, latest, dateString, parsed, loop, titleCall, bodyCall>>

\* setFilterDate(newDate) of the hook
SetFilterDate(newDate) ==
    /\ newDate # state.filterDate
    /\ state' = crawlerReducer(state, Action("SET_FILTER_DATE", newDate))
    /\ UNCHANGED <<variant, tz, now, runs, latest, dateString, parsed, loop, titleCall, bodyCall>>

\* toggleSixMonths(checked) of the hook
ToggleSixMonths(checked) ==
    /\ checked # state.showNextSixMonths
    /\ state' = crawlerReducer(state, Action("TOGGLE_SIX_MONTHS_FILTER", checked))
    /\ UNCHANGED <<variant, tz, now, runs, latest, dateString, parsed, loop, titleCall, bodyCall>>

\* onChange of the date input, disabled={isLoading || showNextSixMonths}
PickFilterDate(newDate) ==
    /\ ~state.isLoading
    /\ ~state.showNextSixMonths
    /\ SetFilterDate(newDate)

\* onChange of the checkbox, disabled={isLoading}
CheckSixMonths(checked) ==
    /\ ~state.isLoading
    /\ ToggleSixMonths(checked)

NextFilter ==
    \/ \E foundJobs \in JobLists : CrawlEnds(foundJobs)
    \/ \E newDate \in FilterDates : PickFilterDate(newDate)
    \/ \E checked \in BOOLEAN : CheckSixMonths(checked)

SpecFilter == InitFilter /\ [][NextFilter]_vars

\* the jobs of the list with lastDate = t, in the order of the list
JobsOn(jobs, t) == SelectSeq(jobs, LAMBDA job : job.lastDate = t)

\* the deadlines of the list that are not after t
DatesUpTo(jobs, t) == {jobs[i].lastDate : i \in {j \in 1..Len(jobs) : jobs[j].lastDate <= t}}

\* the filter with target t as specified: the jobs on t if there are any,
\* else the jobs on the latest deadline before t, else none
ExactOrNearest(jobs, t) ==
    IF DatesUpTo(jobs, t) = {} THEN <<>>
    ELSE JobsOn(jobs, CHOOSE u \in DatesUpTo(jobs, t) : \A v \in DatesUpTo(jobs, t) : v <= u)

\* C16: with a target date, the displayed list is the exact-or-nearest
\* selection: the jobs due on that date, else all jobs due on the latest
\* earlier deadline, else none
C16_ExactOrNearest ==
    (state.filterDate # <<>> /\ ~state.showNextSixMonths) =>
        filteredJobs(state, now, tz)
        = ExactOrNearest(state.jobs, UTCMidnight(ParseInt(SubSeq(state.filterDate, 1, 4)),
                                                 ParseInt(SubSeq(state.filterDate, 6, 7)),
                                                 ParseInt(SubSeq(state.filterDate, 9, 10))))

\* C17: whenever the six-month horizon filter is switched on, the displayed
\* list is exactly the jobs with lastDate <= now + 6 months, whatever target
\* date was set before
C17_HorizonFilter ==
    state.showNextSixMonths =>
        filteredJobs(state, now, tz)
        = SelectSeq(state.jobs, LAMBDA job : job.lastDate <= SixMonthsFromNow(now, tz))

\* the list is in order of non-decreasing lastDate
Ascending(jobs) == \A i, j \in 1..Len(jobs) : i <= j => jobs[i].lastDate <= jobs[j].lastDate

\* no target date and no horizon filter
NoFilter(st) == st.filterDate = <<>> /\ ~st.showNextSixMonths

\* C18: with neither filter selected the displayed list is the list of the
\* store, in order of non-decreasing lastDate, and when a crawl ends it holds
\* every job the crawl produced, each once
C18_IdentitySorted ==
    /\ [](NoFilter(state) => /\ filteredJobs(state, now, tz) = state.jobs
                             /\ Ascending(state.jobs))
    /\ [][\A foundJobs \in JobLists :
              (CrawlEnds(foundJobs) /\ NoFilter(state')) =>
                  /\ Len(filteredJobs(state', now, tz)) = Len(foundJobs)
                  /\ \A i \in 1..Len(foundJobs) :
                         \E j \in 1..Len(foundJobs) :
                             filteredJobs(state', now, tz)[j] = foundJobs[i]]_vars

\* three jobs are displayed with both filters off: the one due first, then
\* the two due on 15 January in the order the crawl found them
C18_Witness ==
    /\ NoFilter(state)
    /\ Len(filteredJobs(state, now, tz)) = 3
    /\ filteredJobs(state, now, tz)[1].lastDate < filteredJobs(state, now, tz)[3].lastDate
    /\ filteredJobs(state, now, tz)[2].title = "c"
    /\ filteredJobs(state, now, tz)[3].title = "b"

(***************************************************************************)
(* findTitle on its own                                                    *)
(***************************************************************************)
\* an element of a parsed document: its tag, its classes, the article, main
\* or .entry-content elements it lies inside, and its innerText
Element(tag, classes, inside, innerText) ==
    [tag |-> tag, classes |-> classes, inside |-> inside, innerText |-> innerText]

\* innerText of an element that is no HTMLElement (svg, math): the property
\* does not exist
Undefined == <<"undefined">>

\* a selector: descendant of `ancestor`, of type `tag`, of class `class`
\* ("" leaves the part out)
Selector(ancestor, tag, class) == [ancestor |-> ancestor, tag |-> tag, class |-> class]

structuralSelectors ==
    <<Selector("", "h1", "entry-title"), Selector("", "h2", "entry-title"),
      Selector("", "h1", "post-title"), Selector("", "h2", "post-title"),
      Selector("article", "h1", ""), Selector("main", "h1", ""),
      Selector(".entry-content", "h1", ""), Selector("article", "h2", ""),
      Selector("main", "h2", ""), Selector(".entry-content", "h2", ""),
      Selector("", "", "entry-title"), Selector("", "", "post-title")>>

\* element.matches(selector)
Matches(element, selector) ==
    /\ selector.ancestor = "" \/ selector.ancestor \in element.inside
    /\ selector.tag = "" \/ selector.tag = element.tag
    /\ selector.class = "" \/ selector.class \in element.classes

\* doc.querySelector(selector): the index of the first matching element in
\* document order, 0 for null
QuerySelector(doc, selector) ==
    IF \E i \in 1..Len(doc) : Matches(doc[i], selector)
    THEN CHOOSE i \in 1..Len(doc) :
             /\ Matches(doc[i], selector)
             /\ \A j \in 1..(i - 1) : ~Matches(doc[j], selector)
    ELSE 0

\* titleText?.length > 10 in part_000, titleText.includes(' ') in App.jsx
LongEnough(program, titleText) ==
    IF program = "part_000" THEN Len(titleText) > 10
    ELSE \E i \in 1..Len(titleText) : titleText[i] = " "

PostTitleNotFound == <<"P", "o", "s", "t", " ", "T", "i", "t", "l", "e", " ", "N", "o", "t", " ", "F", "o", "u", "n", "d">>

Returned(titleText) == [outcome |-> "return", title |-> titleText]

\* TypeError: Cannot read properties of undefined (reading 'trim')
Thrown == [outcome |-> "throw", title |-> <<>>]

\* the fallback after the loop over structuralSelectors
FirstH1(doc) ==
    Bind(QuerySelector(doc, Selector("", "h1", "")), LAMBDA firstH1 :
         IF firstH1 # 0
         THEN IF doc[firstH1].innerText = Undefined
              THEN Thrown
              ELSE Returned(Trim(doc[firstH1].innerText))
         ELSE Returned(PostTitleNotFound))

\* for (const selector of structuralSelectors) { ... } from selector k on
RECURSIVE ForEachSelector(_, _, _)
ForEachSelector(program, doc, k) ==
    IF k > Len(structuralSelectors) THEN FirstH1(doc)
    ELSE Bind(QuerySelector(doc, structuralSelectors[k]), LAMBDA element :
              IF element = 0 THEN ForEachSelector(program, doc, k + 1)
              ELSE IF doc[element].innerText = Undefined
              THEN IF program = "part_000"
                   THEN ForEachSelector(program, doc, k + 1)
                   ELSE Thrown
              ELSE IF LongEnough(program, Trim(doc[element].innerText))
              THEN Returned(Trim(doc[element].innerText))
              ELSE ForEachSelector(program, doc, k + 1))

findTitle(program, doc) == ForEachSelector(program, doc, 1)

\* the most elements of a document
MaxElements == 3

\* the elements of the documents: headings with and without the classes and
\* regions of the selectors, with one short word, one long word, two short
\* words, two long words, no text, and the text of the sentinel; an svg
\* element of class entry-title; a div that no selector matches
ElementPool ==
    {Element("h1", {"entry-title"}, {}, <<"J", "o", "b", "s">>),
     Element("h2", {"post-title"}, {}, <<"S", "e", "n", "i", "o", "r", " ", "E", "n", "g", "i", "n", "e", "e", "r">>),
     Element("h1", {}, {"article"}, <<"A", "n", "n", "o", "u", "n", "c", "e", "m", "e", "n", "t", "s">>),
     Element("h2", {}, {"main"}, <<" ", "A", "p", "p", "l", "y", " ", "n", "o", "w", " ">>),
     Element("h1", {}, {}, <<>>),
     Element("h1", {}, {}, <<"P", "o", "s", "t", " ", "T", "i", "t", "l", "e", " ", "N", "o", "t", " ", "F", "o", "u", "n", "d">>),
     Element("svg", {"entry-title"}, {}, Undefined),
     Element("div", {}, {}, <<"A", "b", "o", "u", "t", " ", "u", "s">>)}

PostDocs == SeqsUpTo(ElementPool, MaxElements)

InitTitle ==
    /\ variant \in {"part_000", "App.jsx"}
    /\ tz = 0
    /\ now = CrawlDay + 3
    /\ state = InitialState
    /\ runs = [r \in Runs |-> IdleRun]
    /\ latest = 0
    /\ dateString = <<>>
    /\ parsed = NotParsed
    /\ loop = NoLoop
    /\ titleCall = NoTitleCall
    /\ bodyCall = NoBodyCall

\* const postDoc = new DOMParser().parseFromString(postHtml, 'text/html')
ParseFromString(doc) ==
    /\ ~titleCall.parsed
    /\ titleCall' = [titleCall EXCEPT !.parsed = TRUE, !.postDoc = doc]
    /\ UNCHANGED <<variant, tz, now, state, runs, latest, dateString, parsed, loop, bodyCall>>

\* const title = findTitle(postDoc)
CallFindTitle ==
    /\ titleCall.parsed
    /\ titleCall.outcome = "none"
    /\ \E found \in {findTitle(variant, titleCall.postDoc)} :
           titleCall' = [titleCall EXCEPT !.outcome = found.outcome,
                                          !.title = found.title]
    /\ UNCHANGED <<variant, tz, now, state, runs, latest, dateString, parsed, loop, bodyCall>>

NextTitle ==
    \/ \E doc \in PostDocs : ParseFromString(doc)
    \/ CallFindTitle

SpecTitle == InitTitle /\ [][NextTitle]_vars

\* the selector's first matching element has text that passes the
\* minimum-length test
Qualifies(program, doc, selector) ==
    /\ QuerySelector(doc, selector) # 0
    /\ doc[QuerySelector(doc, selector)].innerText # Undefined
    /\ LongEnough(program, Trim(doc[QuerySelector(doc, selector)].innerText))

\* the selectors, by their place in the list, that qualify
Qualifying(program, doc) ==
    {k \in 1..Len(structuralSelectors) : Qualifies(program, doc, structuralSelectors[k])}

HasH1(doc) == \E i \in 1..Len(doc) : doc[i].tag = "h1"

\* C19: findTitle returns a string for every document: the text of the first
\* selector in the list that qualifies, else the text of the first h1, else
\* the sentinel; and it returns the sentinel exactly when no selector
\* qualifies and there is no h1
C19_TitleNeverFails ==
    titleCall.outcome # "none" =>
        /\ titleCall.outcome = "return"
        /\ titleCall.title =
               IF Qualifying(variant, titleCall.postDoc) # {}
               THEN Trim(titleCall.postDoc[QuerySelector(titleCall.postDoc,
                        structuralSelectors[
                            CHOOSE k \in Qualifying(variant, titleCall.postDoc) :
                                \A l \in Qualifying(variant, titleCall.postDoc) : k <= l])
                        ].innerText)
               ELSE IF HasH1(titleCall.postDoc)
               THEN Trim(titleCall.postDoc[
                        CHOOSE i \in 1..Len(titleCall.postDoc) :
                            /\ titleCall.postDoc[i].tag = "h1"
                            /\ \A j \in 1..(i - 1) : titleCall.postDoc[j].tag # "h1"
                        ].innerText)
               ELSE PostTitleNotFound
        /\ titleCall.title = PostTitleNotFound
               <=> (Qualifying(variant, titleCall.postDoc) = {} /\ ~HasH1(titleCall.postDoc))

(***************************************************************************)
(* The forEach callback on a body text with several trigger phrases        *)
(***************************************************************************)
\* the alternatives of deadlineRegex, as text
PhraseTexts ==
    {<<"l", "a", "s", "t", " ", "d", "a", "t", "e">>,
     <<"c", "l", "o", "s", "i", "n", "g", " ", "d", "a", "t", "e">>,
     <<"d", "e", "a", "d", "l", "i", "n", "e">>,
     <<"a", "p", "p", "l", "y", " ", "b", "y">>,
     <<"a", "p", "p", "l", "i", "c", "a", "t", "i", "o", "n", "s", " ", "c", "l", "o", "s", "e">>,
     <<"s", "u", "b", "m", "i", "t", " ", "b", "y">>}

\* jobKeywords, as text
KeywordTexts ==
    {<<"q", "u", "a", "l", "i", "f", "i", "c", "a", "t", "i", "o", "n">>,
     <<"r", "e", "s", "p", "o", "n", "s", "i", "b", "i", "l", "i", "t">>,
     <<"e", "x", "p", "e", "r", "i", "e", "n", "c", "e">>,
     <<"s", "a", "l", "a", "r", "y">>,
     <<"l", "o", "c", "a", "t", "i", "o", "n">>,
     <<"a", "p", "p", "l", "y", " ", "n", "o", "w">>,
     <<"j", "o", "b", " ", "t", "y", "p", "e">>}

\* string.includes(sub)
Includes(string, sub) ==
    \E i \in 1..(Len(string) - Len(sub) + 1) : SubSeq(string, i, i + Len(sub) - 1) = sub

\* an alternative of deadlineRegex matches at i (under the i flag)
PhraseAt(text, i) ==
    \E phrase \in PhraseTexts :
        /\ i + Len(phrase) - 1 <= Len(text)
        /\ LowerSeq(SubSeq(text, i, i + Len(phrase) - 1)) = phrase

\* the text after the alternative that matches at i
AfterPhrase(text, i) ==
    Bind(CHOOSE phrase \in PhraseTexts :
             /\ i + Len(phrase) - 1 <= Len(text)
             /\ LowerSeq(SubSeq(text, i, i + Len(phrase) - 1)) = phrase,
         LAMBDA phrase : SubSeq(text, i + Len(phrase), Len(text)))

\* where bodyText.match(deadlineRegex) matches: the leftmost trigger phrase
\* after which the rest of the regex matches, 0 when there is none
MatchIndex(bodyText) ==
    Bind({i \in 1..Len(bodyText) :
             PhraseAt(bodyText, i) /\ CaptureMatches(AfterPhrase(bodyText, i)) # {}},
         LAMBDA starts : IF starts = {} THEN 0
                         ELSE CHOOSE i \in starts : \A j \in starts : i <= j)

\* match[1] of bodyText.match(deadlineRegex), <<>> when there is no match
BodyCapture(bodyText) ==
    Bind(MatchIndex(bodyText), LAMBDA i :
         IF i = 0 THEN <<>>
         ELSE Capture(Page("", {}, "deadline", AfterPhrase(bodyText, i))))

\* jobKeywords.forEach(keyword => { if (lowerBodyText.includes(keyword)) score++ })
Score(bodyText) ==
    Cardinality({keyword \in KeywordTexts : Includes(LowerSeq(bodyText), keyword)})

\* parseDate of App.jsx: patterns 1 and 2, then new Date(dateString)
parseDateApp(string, zone) ==
    IF string = <<>> THEN NULL
    ELSE IF Pattern1Matches(string) # {} THEN ParsePattern1(string)
    ELSE LET r  == ReplaceCommaSpace(string)
             p2 == IF Pattern2Matches(r) # {} THEN ParsePattern2(r) ELSE NULL
         IN  IF p2 # NULL THEN p2 ELSE NewDate(string, zone)

\* parseDate of the program
ParseDateOf(program, string, zone) ==
    IF program = "App.jsx" THEN parseDateApp(string, zone)
    ELSE parseDate(string, zone)

\* the callback of validResults.forEach (part_000 and App.jsx) on a document
\* given by its body text
ProcessBody(program, foundJobs, title, postUrl, bodyText, today, zone) ==
    Bind(BodyCapture(bodyText), LAMBDA match :
         IF match = <<>> THEN foundJobs
         ELSE IF Score(bodyText) < MinScore THEN foundJobs
         ELSE Bind(ParseDateOf(program, Trim(match), zone), LAMBDA lastDate :
                   IF lastDate # NULL /\ TimeOf(lastDate) >= today
                   THEN PushUnique(foundJobs, Job(title, postUrl, TimeOf(lastDate)))
                   ELSE foundJobs))

\* the parts of the body texts: the keywords, a first deadline phrase (past,
\* future in digits, past and future in words, no date), what separates it
\* from the rest, and the rest: nothing or a later phrase with a future date
BodyKeywords == {<<"s", "a", "l", "a", "r", "y", " ", "a", "n", "d", " ",
                       "l", "o", "c", "a", "t", "i", "o", "n", ".", " ">>,
                 <<"s", "a", "l", "a", "r", "y", ".", " ">>}

FirstPhrases ==
    {<<"d", "e", "a", "d", "l", "i", "n", "e", ":", " ", "1", "0", "/", "0",
       "1", "/", "2", "0", "2", "5">>,
     <<"d", "e", "a", "d", "l", "i", "n", "e", ":", " ", "2", "0", "/", "0",
       "1", "/", "2", "0", "2", "5">>,
     <<"a", "p", "p", "l", "y", " ", "b", "y", " ", "1", "0", " ", "J", "a",
       "n", "u", "a", "r", "y", " ", "2", "0", "2", "5">>,
     <<"a", "p", "p", "l", "y", " ", "b", "y", " ", "2", "0", " ", "J", "a",
       "n", "u", "a", "r", "y", " ", "2", "0", "2", "5">>,
     <<"d", "e", "a", "d", "l", "i", "n", "e", ":", " ", "t", "b", "d">>}

BodySeparators == {<<" ">>, <<".", " ">>, <<";", " ">>}

LaterPhrases ==
    {<<>>,
     <<"l", "a", "s", "t", " ", "d", "a", "t", "e", ":", " ", "2", "5", "/",
       "0", "1", "/", "2", "0", "2", "5">>,
     <<"l", "a", "s", "t", " ", "d", "a", "t", "e", " ", "2", "5", "/", "0",
       "1", "/", "2", "0", "2", "5">>,
     <<"c", "l", "o", "s", "i", "n", "g", " ", "d", "a", "t", "e", " ", "2",
       "5", " ", "J", "a", "n", "u", "a", "r", "y", " ", "2", "0", "2", "5">>}

BodyTexts ==
    {k \o f \o p \o l : k \in BodyKeywords, f \in FirstPhrases,
                        p \in BodySeparators, l \in LaterPhrases}

InitBody ==
    /\ variant \in {"part_000", "App.jsx"}
    /\ tz = 0
    /\ now = CrawlDay + 3
    /\ state = InitialState
    /\ runs = [r \in Runs |-> IdleRun]
    /\ latest = 0
    /\ dateString = <<>>
    /\ parsed = NotParsed
    /\ loop = NoLoop
    /\ titleCall = NoTitleCall
    /\ bodyCall = NoBodyCall

\* const bodyText = postDoc.body.innerText
ReadBodyText(bodyText) ==
    /\ ~bodyCall.parsed
    /\ bodyCall' = [bodyCall EXCEPT !.parsed = TRUE, !.bodyText = bodyText]
    /\ UNCHANGED <<variant, tz, now, state, runs, latest, dateString, parsed, loop,
                   titleCall>>

\* the rest of the callback, from the match on
ExtractDeadline ==
    /\ bodyCall.parsed
    /\ ~bodyCall.returned
    /\ \E foundJobs \in {ProcessBody(variant, <<>>, "post", Link1, bodyCall.bodyText,
                                     Today(now, tz), tz)} :
           bodyCall' = [bodyCall EXCEPT !.returned = TRUE, !.foundJobs = foundJobs]
    /\ UNCHANGED <<variant, tz, now, state, runs, latest, dateString, parsed, loop,
                   titleCall>>

NextBody ==
    \/ \E bodyText \in BodyTexts : ReadBodyText(bodyText)
    \/ ExtractDeadline

SpecBody == InitBody /\ [][NextBody]_vars

\* the trigger phrases of the text after the first match, by position
LaterPhraseAt(bodyText) ==
    {j \in (MatchIndex(bodyText) + 1)..Len(bodyText) : PhraseAt(bodyText, j)}

\* the body text up to the first trigger phrase after the first match
UpToLaterPhrase(bodyText) ==
    IF LaterPhraseAt(bodyText) = {} THEN bodyText
    ELSE SubSeq(bodyText, 1,
                (CHOOSE j \in LaterPhraseAt(bodyText) :
                     \A l \in LaterPhraseAt(bodyText) : j <= l) - 1)

\* C21: the callback gives what it gives for the text cut before the next
\* trigger phrase: a document whose first payload does not parse or is past
\* gives no job whatever a later phrase carries, and a later phrase never
\* changes the lastDate of the job
C21_FirstMatchDecides ==
    bodyCall.returned =>
        bodyCall.foundJobs
        = ProcessBody(variant, <<>>, "post", Link1, UpToLaterPhrase(bodyCall.bodyText),
                      Today(now, tz), tz)

(***************************************************************************)
(* Pagination of the job list in part_000                                  *)
(***************************************************************************)
JOBS_PER_PAGE == 10

\* the numbers of jobs a crawl can find: none, one page, two and three pages
JobCounts == {0, 4, 11, 21}

\* a sorted list of n jobs due on 15, 16 and 17 January 2025
ManyJobs(n) ==
    SortJobs([i \in 1..n |->
                 Job("post", "https://example.com/job/" \o ToString(i),
                     DateUTC(2025, 0, 15 + (i % 3)))])

\* Math.ceil(filteredJobs.length / JOBS_PER_PAGE)
totalPages(st, time, zone) ==
    (Len(filteredJobs(st, time, zone)) + JOBS_PER_PAGE - 1) \div JOBS_PER_PAGE

\* onClick of Start Scan (disabled while isLoading): handleFetchJobs up to
\* its first await
StartScan ==
    /\ ~state.isLoading
    /\ state' = IF state.url = ""
                THEN crawlerReducer(state, Action("SET_ERROR", NoUrl))
                ELSE crawlerReducer(state, Action("START_SCAN", ""))
    /\ UNCHANGED <<variant, tz, now, runs, latest, dateString, parsed, loop, titleCall,
                   bodyCall>>

\* the crawl ends with n jobs
ManyJobsFound(n) ==
    /\ state.isLoading
    /\ state' = crawlerReducer(state, Action("SET_JOBS", ManyJobs(n)))
    /\ UNCHANGED <<variant, tz, now, runs, latest, dateString, parsed, loop, titleCall,
                   bodyCall>>

\* setPage(newPage) of the hook
SetPage(newPage) ==
    /\ state' = crawlerReducer(state, Action("SET_PAGE", newPage))
    /\ UNCHANGED <<variant, tz, now, runs, latest, dateString, parsed, loop, titleCall,
                   bodyCall>>

\* onClick of Previous, which is rendered with the list and disabled when
\* page === 1: setPage(p => Math.max(1, p - 1))
goToPrevPage ==
    /\ filteredJobs(state, now, tz) # <<>>
    /\ state.page # NumberValue(1)
    /\ SetPage(FunctionValue(-1))

\* onClick of Next, disabled when page === totalPages:
\* setPage(p => Math.min(totalPages, p + 1))
goToNextPage ==
    /\ filteredJobs(state, now, tz) # <<>>
    /\ state.page # NumberValue(totalPages(state, now, tz))
    /\ SetPage(FunctionValue(1))

\* onClose of the error modal, which is rendered while error is not empty
CloseErrorModal ==
    /\ state.error # ""
    /\ SetPage(NumberValue(1))

NextPages ==
    \/ \E u \in Urls : TypeUrl(u)
    \/ StartScan
    \/ CloseErrorModal
    \/ \E n \in JobCounts : ManyJobsFound(n)
    \/ goToPrevPage
    \/ goToNextPage
    \/ \E newDate \in FilterDates : PickFilterDate(newDate)
    \/ \E checked \in BOOLEAN : CheckSixMonths(checked)

SpecPages == InitFilter /\ [][NextPages]_vars

\* C23: page is an integer from 1 to max(1, totalPages)
C23_PageInRange ==
    /\ state.page.type = "number"
    /\ state.page.value >= 1
    /\ state.page.value <= totalPages(state, now, tz) \/ state.page.value = 1

(***************************************************************************)
(* The frame conditions of crawlerReducer                                  *)
(***************************************************************************)
\* the action types of the switch, and one that falls to its default
ActionTypes ==
    {"START_SCAN", "UPDATE_STATUS", "SET_JOBS", "SET_ERROR", "SET_PAGE", "SET_URL",
     "SET_FILTER_DATE", "TOGGLE_SIX_MONTHS_FILTER", "RESET"}

\* the payloads the hook dispatches with each type
Payloads(type) ==
    CASE type \in {"START_SCAN", "RESET"} -> {<<>>}
      [] type = "UPDATE_STATUS" ->
            {"Step 2/3: Analyzing found links...", "Step 3/3: Processing results..."}
      [] type = "SET_JOBS" -> {ManyJobs(n) : n \in JobCounts}
      [] type = "SET_ERROR" -> {NoUrl, NoContent, ""}
      [] type = "SET_PAGE" -> {NumberValue(1), FunctionValue(-1), FunctionValue(1)}
      [] type = "SET_URL" -> Urls
      [] type = "SET_FILTER_DATE" -> FilterDates
      [] type = "TOGGLE_SIX_MONTHS_FILTER" -> BOOLEAN

\* START_SCAN on st: what it sets and what it leaves
StartScanFrame(st) ==
    LET new == crawlerReducer(st, Action("START_SCAN", <<>>))
    IN  /\ new.isLoading
        /\ new.jobs = <<>>
        /\ new.error = ""
        /\ new.page = NumberValue(1)
        /\ new.url = st.url
        /\ new.filterDate = st.filterDate
        /\ new.showNextSixMonths = st.showNextSixMonths

\* no action but START_SCAN and SET_ERROR changes the error of st
ErrorFrame(st) ==
    \A type \in ActionTypes \ {"START_SCAN", "SET_ERROR"} :
        \A payload \in Payloads(type) :
            crawlerReducer(st, Action(type, payload)).error = st.error

\* C25: in every state the App reaches, START_SCAN sets isLoading, empties
\* jobs and error and puts page at 1 while url, filterDate and
\* showNextSixMonths stay; once an error is stored, no action other than
\* START_SCAN and SET_ERROR changes it, and the close handler of the error
\* modal, which dispatches SET_PAGE, leaves it where it is
C25_ReducerFrames ==
    /\ [](StartScanFrame(state) /\ (state.error # "" => ErrorFrame(state)))
    /\ [][CloseErrorModal => state'.error = state.error]_vars

\* an error is stored and the URL was typed after it (in this App SET_ERROR
\* comes of an empty URL alone)
C25_Witness ==
    /\ state.error = NoUrl
    /\ state.url = SiteUrl
    /\ ~state.isLoading

=========================================================================
